---- MODULE Spec2Model ----
(***************************************************************************)
(* Model of the self-describing value codec (xelis_common/src/api/mod.rs)  *)
(* and of the transaction builder (xelis_wallet/src/transaction_builder.rs)*)
(*                                                                         *)
(* Unsigned integers wider than 16 bits are kept at their real width as    *)
(* big-endian sequences of 16-bit limbs (u32: 2 limbs, u64: 4, u128: 8),   *)
(* u8 and u16 as one limb.  Strings are sequences of character codes,      *)
(* hashes and public keys sequences of bytes.                              *)
(***************************************************************************)
EXTENDS Integers, Sequences, FiniteSets, TLC

VARIABLES
    \* codec
    elem,            \* the DataElement under test
    bytes,           \* contents of the Writer / the buffer given to the Reader
    result,          \* what the last read / textual decode returned
    json,            \* the untagged textual (JSON) form last produced
    lookup,          \* what the last get_value returned
    op,              \* the last codec operation performed
    input,           \* how the buffer given to the Reader was made, if not by write
    \* transaction builder
    owner,           \* TransactionBuilder.owner
    data,            \* TransactionBuilder.data
    fee_multiplier,  \* TransactionBuilder.fee_multiplier
    phase,           \* "Created", "Built", "Rejected", "Panicked"
    estimates,       \* the values estimate_fees has returned on this builder
    spent,           \* what the last total_spent returned
    keypair,         \* the key-pair build was called with
    tx,              \* what build returned
    signed,          \* the byte strings handed to keypair.sign, in order
    calls            \* number of non-consuming queries made so far

vars == <<elem, bytes, result, json, lookup, op, input,
          owner, data, fee_multiplier, phase, estimates, spent, keypair, tx, signed, calls>>

codecVars == <<elem, bytes, result, json, lookup, op, input>>
builderVars == <<owner, data, fee_multiplier, phase, estimates, spent, keypair, tx, signed, calls>>

-----------------------------------------------------------------------------
(* Widths *)

U8_MAX == 255
LIMB == 256 * 256
HASH_SIZE == 32

RECURSIVE Concat(_)
Concat(ss) == IF ss = <<>> THEN <<>> ELSE Head(ss) \o Concat(Tail(ss))

Rep(x, n) == [i \in 1..n |-> x]

\* `n as u8`
AsU8(n) == n % (U8_MAX + 1)

-----------------------------------------------------------------------------
(* DataType, DataValue *)

DataType == {"Bool", "String", "U8", "U16", "U32", "U64", "U128", "Hash"}

Bool(b)    == [kind |-> "Bool",   v |-> <<IF b THEN 1 ELSE 0>>]
String(s)  == [kind |-> "String", v |-> s]
U8(n)      == [kind |-> "U8",     v |-> <<n>>]
U16(n)     == [kind |-> "U16",    v |-> <<n>>]
U32(l)     == [kind |-> "U32",    v |-> l]
U64(l)     == [kind |-> "U64",    v |-> l]
U128(l)    == [kind |-> "U128",   v |-> l]
Hash(h)    == [kind |-> "Hash",   v |-> h]
\* Option<DataValue>::None
None       == [kind |-> "None",   v |-> <<>>]

kind(value) == value.kind

\* DataElement
Value(value)   == [tag |-> "Value",  value  |-> value]
Array(values)  == [tag |-> "Array",  values |-> values]
Fields(fields) == [tag |-> "Fields", fields |-> fields]

-----------------------------------------------------------------------------
(* Byte cursor: Writer.  A written value is the byte sequence appended.    *)

LimbsToBytes(l) ==
    [i \in 1..(2 * Len(l)) |->
        IF i % 2 = 1 THEN l[(i + 1) \div 2] \div 256 ELSE l[i \div 2] % 256]

BytesToLimbs(bs) ==
    [i \in 1..(Len(bs) \div 2) |-> bs[2 * i - 1] * 256 + bs[2 * i]]

write_u8(n)     == <<n>>
write_bool(b)   == <<b[1]>>
write_u16(l)    == LimbsToBytes(l)
write_u32(l)    == LimbsToBytes(l)
write_u64(l)    == LimbsToBytes(l)
write_u128(l)   == LimbsToBytes(l)
write_string(s) == <<AsU8(Len(s))>> \o s
write_hash(h)   == h

(* Byte cursor: Reader over buffer b with p bytes already consumed.        *)

Ok(v, p)  == [ok |-> TRUE,  val |-> v, pos |-> p]
Err(e, p) == [ok |-> FALSE, err |-> e, pos |-> p]

read_bytes(b, p, n) ==
    IF p + n > Len(b) THEN Err("InvalidSize", p)
    ELSE Ok(SubSeq(b, p + 1, p + n), p + n)

read_u8(b, p) ==
    LET r == read_bytes(b, p, 1) IN IF r.ok THEN Ok(r.val[1], r.pos) ELSE r

read_bool(b, p) ==
    LET r == read_u8(b, p) IN
    IF r.ok THEN Ok(<<IF r.val = 1 THEN 1 ELSE 0>>, r.pos) ELSE r

read_limbs(b, p, n) ==
    LET r == read_bytes(b, p, n) IN IF r.ok THEN Ok(BytesToLimbs(r.val), r.pos) ELSE r

read_u16(b, p)  == read_limbs(b, p, 2)
read_u32(b, p)  == read_limbs(b, p, 4)
read_u64(b, p)  == read_limbs(b, p, 8)
read_u128(b, p) == read_limbs(b, p, 16)

read_string(b, p) ==
    LET n == read_u8(b, p) IN IF n.ok THEN read_bytes(b, n.pos, n.val) ELSE n

read_hash(b, p) == read_bytes(b, p, HASH_SIZE)

-----------------------------------------------------------------------------
(* impl Serializer for DataValue *)

DataValue_write(value) ==
    CASE value.kind = "Bool"   -> write_u8(0) \o write_bool(value.v)
      [] value.kind = "String" -> write_u8(1) \o write_string(value.v)
      [] value.kind = "U8"     -> write_u8(2) \o write_u8(value.v[1])
      [] value.kind = "U16"    -> write_u8(3) \o write_u16(value.v)
      [] value.kind = "U32"    -> write_u8(4) \o write_u32(value.v)
      [] value.kind = "U64"    -> write_u8(5) \o write_u64(value.v)
      [] value.kind = "U128"   -> write_u8(6) \o write_u128(value.v)
      [] value.kind = "Hash"   -> write_u8(7) \o write_hash(value.v)

\* wraps the payload a primitive read returned into the variant k
Wrap(k, r) == IF r.ok THEN Ok([kind |-> k, v |-> r.val], r.pos) ELSE r

DataValue_read(b, p) ==
    LET t == read_u8(b, p) IN
    IF ~t.ok THEN t
    ELSE CASE t.val = 0 -> Wrap("Bool", read_bool(b, t.pos))
           [] t.val = 1 -> Wrap("String", read_string(b, t.pos))
           [] t.val = 2 -> LET r == read_u8(b, t.pos) IN
                           IF r.ok THEN Ok(U8(r.val), r.pos) ELSE r
           [] t.val = 3 -> Wrap("U16", read_u16(b, t.pos))
           [] t.val = 4 -> Wrap("U32", read_u32(b, t.pos))
           [] t.val = 5 -> Wrap("U64", read_u64(b, t.pos))
           [] t.val = 6 -> Wrap("U128", read_u128(b, t.pos))
           [] t.val = 7 -> Wrap("Hash", read_hash(b, t.pos))
           [] OTHER     -> Err("InvalidValue", t.pos)

\* impl Serializer for Option<T>: a presence flag, then the value if present
Option_write(value) ==
    IF value = None THEN write_bool(<<0>>)
    ELSE write_bool(<<1>>) \o DataValue_write(value)

Option_read(b, p) ==
    LET f == read_bool(b, p) IN
    IF ~f.ok THEN f
    ELSE IF f.val = <<1>> THEN DataValue_read(b, f.pos)
    ELSE Ok(None, f.pos)

-----------------------------------------------------------------------------
(* impl Serializer for DataElement *)

\* every order in which a HashMap may iterate over the key set S
RECURSIVE Orders(_)
Orders(S) ==
    IF S = {} THEN {<<>>}
    ELSE UNION {{<<k>> \o rest : rest \in Orders(S \ {k})} : k \in S}

\* The bytes write can append for element e: a set, because the iteration
\* order of a Fields map is not fixed.
\* Loops over the children of a node are unfolded by halves, first half first.
RECURSIVE DataElement_write(_), WriteValues(_, _, _), WritePairs(_, _, _)
DataElement_write(e) ==
    CASE e.tag = "Value" ->
            {write_u8(0) \o Option_write(e.value)}
      [] e.tag = "Array" ->
            {write_u8(1) \o write_u8(AsU8(Len(e.values))) \o body :
                body \in WriteValues(e.values, 1, Len(e.values))}
      [] e.tag = "Fields" ->
            {write_u8(2) \o write_u8(AsU8(Cardinality(DOMAIN e.fields))) \o body :
                body \in UNION {WritePairs(e.fields, order, 1) :
                                    order \in Orders(DOMAIN e.fields)}}

\* for value in values { value.write(writer) }, values[lo..hi]
WriteValues(values, lo, hi) ==
    IF lo > hi THEN {<<>>}
    ELSE IF lo = hi THEN DataElement_write(values[lo])
    ELSE {x \o rest : x \in WriteValues(values, lo, (lo + hi) \div 2),
                      rest \in WriteValues(values, (lo + hi) \div 2 + 1, hi)}

\* for (key, value) in fields { key.write(writer); value.write(writer) }

WritePairs(fields, order, i) ==
    IF i > Len(order) THEN {<<>>}
    ELSE {DataValue_write(order[i]) \o x \o rest :
                x \in DataElement_write(fields[order[i]]),
                rest \in WritePairs(fields, order, i + 1)}

\* fields.insert(key, value)
Insert(fields, key, value) ==
    [k \in DOMAIN fields \cup {key} |-> IF k = key THEN value ELSE fields[k]]

RECURSIVE DataElement_read(_, _), ReadValues(_, _, _), ReadPairs(_, _, _, _)
DataElement_read(b, p) ==
    LET t == read_u8(b, p) IN
    IF ~t.ok THEN t
    ELSE CASE t.val = 0 ->
                LET o == Option_read(b, t.pos) IN
                IF o.ok THEN Ok(Value(o.val), o.pos) ELSE o
           [] t.val = 1 ->
                LET size == read_u8(b, t.pos) IN
                IF ~size.ok THEN size
                ELSE LET values == ReadValues(b, size.pos, size.val) IN
                     IF values.ok THEN Ok(Array(values.val), values.pos) ELSE values
           [] t.val = 2 ->
                LET size == read_u8(b, t.pos) IN
                IF size.ok THEN ReadPairs(b, size.pos, size.val, <<>>) ELSE size
           [] OTHER -> Err("InvalidValue", t.pos)

\* ReadValues pushing each child in front of the earlier ones
ReadValues_reversed(b, p, size) ==
    IF size = 0 THEN Ok(<<>>, p)
    ELSE IF size = 1 THEN
        LET r == DataElement_read(b, p) IN IF r.ok THEN Ok(<<r.val>>, r.pos) ELSE r
    ELSE LET first == ReadValues(b, p, size \div 2) IN
         IF ~first.ok THEN first
         ELSE LET rest == ReadValues(b, first.pos, size - size \div 2) IN
              IF rest.ok THEN Ok(rest.val \o first.val, rest.pos) ELSE rest

\* ReadValues without the ? on the child's read: a child that fails is skipped
ReadValues_lenient(b, p, size) ==
    IF size = 0 THEN Ok(<<>>, p)
    ELSE IF size = 1 THEN
        LET r == DataElement_read(b, p) IN
        IF r.ok THEN Ok(<<r.val>>, r.pos) ELSE Ok(<<>>, r.pos)
    ELSE LET first == ReadValues(b, p, size \div 2) IN
         IF ~first.ok THEN first
         ELSE LET rest == ReadValues(b, first.pos, size - size \div 2) IN
              IF rest.ok THEN Ok(first.val \o rest.val, rest.pos) ELSE rest

\* for _ in 0..size { values.push(DataElement::read(reader)?) }
ReadValues(b, p, size) ==
    IF size = 0 THEN Ok(<<>>, p)
    ELSE IF size = 1 THEN
        LET r == DataElement_read(b, p) IN IF r.ok THEN Ok(<<r.val>>, r.pos) ELSE r
    ELSE LET first == ReadValues(b, p, size \div 2) IN
         IF ~first.ok THEN first
         ELSE LET rest == ReadValues(b, first.pos, size - size \div 2) IN
              IF rest.ok THEN Ok(first.val \o rest.val, rest.pos) ELSE rest

\* for _ in 0..size { key = DataValue::read?; value = DataElement::read?; insert }
ReadPairs(b, p, left, fields) ==
    IF left = 0 THEN Ok(Fields(fields), p)
    ELSE LET key == DataValue_read(b, p) IN
         IF ~key.ok THEN key
         ELSE LET value == DataElement_read(b, key.pos) IN
              IF value.ok
              THEN ReadPairs(b, value.pos, left - 1, Insert(fields, key.val, value.val))
              ELSE value

-----------------------------------------------------------------------------
(* DataElement::get_value: [some |-> TRUE, value |-> v] or absent *)

Absent == [some |-> FALSE, value |-> None]
Some(value) == [some |-> TRUE, value |-> value]

\* get_value without the comparison of kind() with data_type
get_value_any_kind(e, name, data_type) ==
    IF e.tag # "Fields" THEN Absent
    ELSE IF String(name) \notin DOMAIN e.fields THEN Absent
    ELSE LET child == e.fields[String(name)] IN
         IF child.tag # "Value" THEN Absent
         ELSE IF child.value = None THEN Absent
         ELSE Some(child.value)

get_value(e, name, data_type) ==
    IF e.tag # "Fields" THEN Absent
    ELSE IF String(name) \notin DOMAIN e.fields THEN Absent
    ELSE LET child == e.fields[String(name)] IN
         IF child.tag # "Value" THEN Absent
         ELSE IF child.value = None THEN Absent
         ELSE IF kind(child.value) # data_type THEN Absent
         ELSE Some(child.value)

-----------------------------------------------------------------------------
(* Untagged textual (JSON) form, #[serde(untagged)] on both enums.         *)
(* A JSON value is modelled by its token: bool, string, number (the        *)
(* number itself, as limbs without leading zero limbs), null, array and    *)
(* object (its members in the order they are written).                     *)

JBool(b)      == [t |-> "bool",   s |-> b]
JString(s)    == [t |-> "string", s |-> s]
JNumber(n)    == [t |-> "number", s |-> n]
JNull         == [t |-> "null"]
JArray(items) == [t |-> "array",  items |-> items]
JObject(ms)   == [t |-> "object", members |-> ms]

JOk(v)  == [ok |-> TRUE,  val |-> v]
JErr    == [ok |-> FALSE, err |-> "data did not match any variant"]

\* the number a limb sequence denotes, without its leading zero limbs
RECURSIVE Strip(_)
Strip(l) == IF l # <<>> /\ Head(l) = 0 THEN Strip(Tail(l)) ELSE l

\* the number n as exactly w limbs
Pad(n, w) == Rep(0, w - Len(n)) \o n

HexDigit(d) == IF d < 10 THEN 48 + d ELSE 87 + d
Hex(bs) ==
    [i \in 1..(2 * Len(bs)) |->
        IF i % 2 = 1 THEN HexDigit(bs[(i + 1) \div 2] \div 16)
        ELSE HexDigit(bs[i \div 2] % 16)]

IsHexDigit(c) == c \in 48..57 \/ c \in 97..102
HexVal(c) == IF c <= 57 THEN c - 48 ELSE c - 87
UnHex(s) == [i \in 1..(Len(s) \div 2) |-> HexVal(s[2 * i - 1]) * 16 + HexVal(s[2 * i])]

\* decimal digits of a number given as limbs
RECURSIVE DivStep(_, _, _, _)
DivStep(l, i, r, q) ==
    IF i > Len(l) THEN [q |-> Strip(q), r |-> r]
    ELSE DivStep(l, i + 1, (r * LIMB + l[i]) % 10, Append(q, (r * LIMB + l[i]) \div 10))

RECURSIVE Decimal(_)
Decimal(n) ==
    LET d == DivStep(n, 1, 0, <<>>) IN
    IF d.q = <<>> THEN <<48 + d.r>> ELSE Decimal(d.q) \o <<48 + d.r>>

\* Serialize for DataValue: the bare value
DataValue_to_json(value) ==
    CASE value.kind = "Bool"   -> JBool(value.v)
      [] value.kind = "String" -> JString(value.v)
      [] value.kind = "Hash"   -> JString(Hex(value.v))
      [] OTHER                 -> JNumber(Strip(value.v))

\* a map key is written as a string
KeyString(value) ==
    CASE value.kind = "Bool"   -> IF value.v = <<1>> THEN <<116, 114, 117, 101>>
                                  ELSE <<102, 97, 108, 115, 101>>
      [] value.kind = "String" -> value.v
      [] value.kind = "Hash"   -> Hex(value.v)
      [] OTHER                 -> Decimal(value.v)

\* what each variant accepts
FitsU8(n) == Len(n) = 0 \/ (Len(n) = 1 /\ n[1] <= U8_MAX)

TryVariant(k, j) ==
    CASE k = "Bool"   -> IF j.t = "bool" THEN JOk([kind |-> "Bool", v |-> j.s]) ELSE JErr
      [] k = "String" -> IF j.t = "string" THEN JOk(String(j.s)) ELSE JErr
      [] k = "U8"     -> IF j.t = "number" /\ FitsU8(j.s) THEN JOk(U8(Pad(j.s, 1)[1])) ELSE JErr
      [] k = "U16"    -> IF j.t = "number" /\ Len(j.s) <= 1 THEN JOk(U16(Pad(j.s, 1)[1])) ELSE JErr
      [] k = "U32"    -> IF j.t = "number" /\ Len(j.s) <= 2 THEN JOk(U32(Pad(j.s, 2))) ELSE JErr
      [] k = "U64"    -> IF j.t = "number" /\ Len(j.s) <= 4 THEN JOk(U64(Pad(j.s, 4))) ELSE JErr
      [] k = "U128"   -> IF j.t = "number" /\ Len(j.s) <= 8 THEN JOk(U128(Pad(j.s, 8))) ELSE JErr
      [] k = "Hash"   -> IF /\ j.t = "string"
                            /\ Len(j.s) = 2 * HASH_SIZE
                            /\ \A i \in 1..Len(j.s) : IsHexDigit(j.s[i])
                         THEN JOk(Hash(UnHex(j.s))) ELSE JErr

\* the variants in declared order
DataValueVariants == <<"Bool", "String", "U8", "U16", "U32", "U64", "U128", "Hash">>

\* Deserialize for DataValue: the first variant, in declared order, that parses
RECURSIVE FirstVariant(_, _)
FirstVariant(j, i) ==
    IF i > Len(DataValueVariants) THEN JErr
    ELSE LET r == TryVariant(DataValueVariants[i], j) IN
         IF r.ok THEN r ELSE FirstVariant(j, i + 1)

DataValue_from_json(j) == FirstVariant(j, 1)

\* Serialize for DataElement: a set, the members of an object come in map order
RECURSIVE DataElement_to_json(_), JsonItems(_, _, _), JsonMembers(_, _, _)
DataElement_to_json(e) ==
    CASE e.tag = "Value" ->
            {IF e.value = None THEN JNull ELSE DataValue_to_json(e.value)}
      [] e.tag = "Array" ->
            {JArray(items) : items \in JsonItems(e.values, 1, Len(e.values))}
      [] e.tag = "Fields" ->
            {JObject(ms) : ms \in UNION {JsonMembers(e.fields, order, 1) :
                                            order \in Orders(DOMAIN e.fields)}}

JsonItems(values, lo, hi) ==
    IF lo > hi THEN {<<>>}
    ELSE IF lo = hi THEN {<<x>> : x \in DataElement_to_json(values[lo])}
    ELSE {x \o rest : x \in JsonItems(values, lo, (lo + hi) \div 2),
                      rest \in JsonItems(values, (lo + hi) \div 2 + 1, hi)}

JsonMembers(fields, order, i) ==
    IF i > Len(order) THEN {<<>>}
    ELSE {<<[key |-> KeyString(order[i]), val |-> x]>> \o rest :
                x \in DataElement_to_json(fields[order[i]]),
                rest \in JsonMembers(fields, order, i + 1)}

\* Deserialize for DataElement: Value, Array, Fields in declared order
RECURSIVE DataElement_from_json(_), FromItems(_, _, _), FromMembers(_, _, _)
DataElement_from_json(j) ==
    IF j.t = "null" THEN JOk(Value(None))
    ELSE IF j.t \in {"bool", "string", "number"} THEN
        LET v == DataValue_from_json(j) IN IF v.ok THEN JOk(Value(v.val)) ELSE JErr
    ELSE IF j.t = "array" THEN
        LET values == FromItems(j.items, 1, Len(j.items)) IN
        IF values.ok THEN JOk(Array(values.val)) ELSE JErr
    ELSE FromMembers(j.members, 1, <<>>)

FromItems(items, lo, hi) ==
    IF lo > hi THEN JOk(<<>>)
    ELSE IF lo = hi THEN
        LET r == DataElement_from_json(items[lo]) IN IF r.ok THEN JOk(<<r.val>>) ELSE JErr
    ELSE LET first == FromItems(items, lo, (lo + hi) \div 2) IN
         IF ~first.ok THEN JErr
         ELSE LET rest == FromItems(items, (lo + hi) \div 2 + 1, hi) IN
              IF rest.ok THEN JOk(first.val \o rest.val) ELSE JErr

FromMembers(ms, i, fields) ==
    IF i > Len(ms) THEN JOk(Fields(fields))
    ELSE LET key   == DataValue_from_json(JString(ms[i].key))
             value == DataElement_from_json(ms[i].val) IN
         IF key.ok /\ value.ok
         THEN FromMembers(ms, i + 1, Insert(fields, key.val, value.val))
         ELSE JErr

-----------------------------------------------------------------------------
(* Inputs of the codec *)

MaxStrLen == 2
MaxChildren == 2

Chars == {97, 53}       \* 'a', '5'
Strings == UNION {[1..n -> Chars] : n \in 0..MaxStrLen}

H1 == [i \in 1..HASH_SIZE |-> 7 * i]

Values ==
    {Bool(TRUE), Bool(FALSE)}
    \cup {String(s) : s \in Strings}
    \cup {U8(0), U8(5), U8(U8_MAX)}
    \cup {U16(5), U16(LIMB - 1)}
    \cup {U32(<<0, 5>>), U32(<<1, 0>>), U32(<<LIMB - 1, LIMB - 1>>)}
    \cup {U64(<<0, 0, 0, 5>>), U64(Rep(LIMB - 1, 4))}
    \cup {U128(Rep(0, 7) \o <<5>>), U128(Rep(LIMB - 1, 8))}
    \cup {Hash(H1)}

Leaves == {Value(None)} \cup {Value(v) : v \in Values}

Keys == {String(<<97>>), String(<<53>>), U8(5)}

\* Array and Fields nodes of at most MaxChildren children taken from kids
Containers(kids) ==
    {Array(s) : s \in UNION {[1..n -> kids] : n \in 0..MaxChildren}}
    \cup {Fields(f) : f \in UNION {[K -> kids] :
                        K \in {K \in SUBSET Keys : Cardinality(K) <= MaxChildren}}}

Kids0 == {Value(None), Value(U8(5)), Value(String(<<53>>)), Value(U64(<<0, 0, 0, 5>>))}

Kids1 ==
    {Value(None), Value(U8(5)),
     Array(<<Value(U8(5))>>),
     Fields([k \in {String(<<97>>)} |-> Value(String(<<53>>))]),
     Fields([k \in {String(<<97>>), U8(5)} |-> Value(None)])}

\* nodes at and just over the one-byte count
Wide == {Array(Rep(Value(None), n)) : n \in {U8_MAX, U8_MAX + 1}}

Elems == Leaves \cup Containers(Kids0) \cup Containers(Kids1) \cup Wide

Names == {<<97>>, <<53>>, <<97, 97>>}

\* no Array or Fields node of e has more than 255 direct children
RECURSIVE WithinCap(_)
WithinCap(e) ==
    CASE e.tag = "Value"  -> TRUE
      [] e.tag = "Array"  -> /\ Len(e.values) <= U8_MAX
                             /\ \A i \in 1..Len(e.values) : WithinCap(e.values[i])
      [] e.tag = "Fields" -> /\ Cardinality(DOMAIN e.fields) <= U8_MAX
                             /\ \A k \in DOMAIN e.fields : WithinCap(e.fields[k])

NoResult == [ok |-> FALSE, err |-> "none", pos |-> 0]
NoLookup == [name |-> <<>>, data_type |-> "Bool", ret |-> Absent]
NoInput  == [how |-> "write", err |-> "none", pos |-> 0]

IsLeafValue(e) == e.tag = "Value" /\ e.value # None

-----------------------------------------------------------------------------
(* The builder's variables while the codec runs, and the reverse *)

IdleBuilder ==
    /\ owner = <<>>
    /\ data = [type |-> "DeployContract", code |-> <<>>]
    /\ fee_multiplier = [num |-> 1, den |-> 1]
    /\ phase = "Idle"
    /\ estimates = {}
    /\ spent = [ok |-> FALSE, map |-> <<>>, panic |-> FALSE]
    /\ keypair = [public |-> <<>>, secret |-> 0]
    /\ tx = [ok |-> FALSE, err |-> "none", signs |-> <<>>]
    /\ signed = <<>>
    /\ calls = 0

IdleCodec ==
    /\ elem = Value(None)
    /\ bytes = <<>>
    /\ result = NoResult
    /\ json = JNull
    /\ lookup = NoLookup
    /\ op = "idle"
    /\ input = NoInput

-----------------------------------------------------------------------------
(* Codec operations *)

InitCodec(S) ==
    /\ elem \in S
    /\ bytes = <<>>
    /\ result = NoResult
    /\ json = JNull
    /\ lookup = NoLookup
    /\ op = "new"
    /\ input = NoInput
    /\ IdleBuilder

\* e.write(&mut writer)
Write ==
    /\ op = "new"
    /\ \E b \in DataElement_write(elem) : bytes' = b
    /\ op' = "write"
    /\ UNCHANGED <<elem, result, json, lookup, input>>
    /\ UNCHANGED builderVars

\* DataElement::read(&mut Reader::new(bytes))
Read ==
    /\ op \in {"write", "receive"}
    /\ result' = DataElement_read(bytes, 0)
    /\ op' = "read"
    /\ UNCHANGED <<elem, bytes, json, lookup, input>>
    /\ UNCHANGED builderVars

\* v.write(&mut writer) for the DataValue v of a leaf
ValueWrite ==
    /\ op = "new"
    /\ IsLeafValue(elem)
    /\ bytes' = DataValue_write(elem.value)
    /\ op' = "value_write"
    /\ UNCHANGED <<elem, result, json, lookup, input>>
    /\ UNCHANGED builderVars

\* DataValue::read(&mut Reader::new(bytes))
ValueRead ==
    /\ op \in {"value_write", "receive_value"}
    /\ result' = DataValue_read(bytes, 0)
    /\ op' = "value_read"
    /\ UNCHANGED <<elem, bytes, json, lookup, input>>
    /\ UNCHANGED builderVars

\* serde_json::to_value(&e)
ToText ==
    /\ op = "new"
    /\ \E j \in DataElement_to_json(elem) : json' = j
    /\ op' = "to_text"
    /\ UNCHANGED <<elem, bytes, result, lookup, input>>
    /\ UNCHANGED builderVars

\* serde_json::from_value::<DataElement>(json)
FromText ==
    /\ op = "to_text"
    /\ result' = DataElement_from_json(json)
    /\ op' = "from_text"
    /\ UNCHANGED <<elem, bytes, json, lookup, input>>
    /\ UNCHANGED builderVars

\* serde_json::to_value(&v) for the DataValue v of a leaf
ValueToText ==
    /\ op = "new"
    /\ IsLeafValue(elem)
    /\ json' = DataValue_to_json(elem.value)
    /\ op' = "value_to_text"
    /\ UNCHANGED <<elem, bytes, result, lookup, input>>
    /\ UNCHANGED builderVars

\* serde_json::from_value::<DataValue>(json)
ValueFromText ==
    /\ op = "value_to_text"
    /\ result' = DataValue_from_json(json)
    /\ op' = "value_from_text"
    /\ UNCHANGED <<elem, bytes, json, lookup, input>>
    /\ UNCHANGED builderVars

\* e.get_value(name, data_type)
GetValue ==
    /\ op = "new"
    /\ \E name \in Names, data_type \in DataType :
          lookup' = [name |-> name, data_type |-> data_type,
                     ret |-> get_value(elem, name, data_type)]
    /\ op' = "get_value"
    /\ UNCHANGED <<elem, bytes, result, json, input>>
    /\ UNCHANGED builderVars

Init == InitCodec(Elems)

Next ==
    \/ Write
    \/ Read
    \/ ValueWrite
    \/ ValueRead
    \/ ToText
    \/ FromText
    \/ ValueToText
    \/ ValueFromText
    \/ GetValue

Spec == Init /\ [][Next]_vars

-----------------------------------------------------------------------------
(* Claims about the codec, under Spec *)

C2_TextRoundTrip ==
    /\ op = "from_text" => (result.ok /\ result.val = elem)
    /\ op = "value_from_text" => (result.ok /\ result.val = elem.value)

\* the field of e named name, when it is a non-null leaf of kind data_type
HasTypedLeaf(e, name, data_type) ==
    /\ e.tag = "Fields"
    /\ String(name) \in DOMAIN e.fields
    /\ e.fields[String(name)].tag = "Value"
    /\ e.fields[String(name)].value # None
    /\ e.fields[String(name)].value.kind = data_type

\* C7: get_value(name, T) returns v exactly when self is a Fields node whose
\* entry at String(name) is a non-null leaf v of kind T, returns absent in
\* every other case, and leaves the tree as it was.
C7_GetValue ==
    [][op' = "get_value" =>
        /\ elem' = elem
        /\ lookup'.ret.some <=> HasTypedLeaf(elem, lookup'.name, lookup'.data_type)
        /\ lookup'.ret.some => lookup'.ret.value = elem.fields[String(lookup'.name)].value
        /\ ~lookup'.ret.some => lookup'.ret = Absent]_vars

C7_Witness ==
    /\ op = "get_value"
    /\ lookup.ret.some
    /\ lookup.ret.value = Value(U8(5)).value
    /\ lookup.data_type = "U8"

\* C10: the count byte written for an Array or Fields node is the number of
\* children written after it, for every element handed to write; and every
\* element read returns has at most 255 direct children per node.
C10_CountByteIsChildCount ==
    /\ (op = "write" /\ elem.tag = "Array") => bytes[2] = Len(elem.values)
    /\ (op = "write" /\ elem.tag = "Fields") => bytes[2] = Cardinality(DOMAIN elem.fields)
    /\ (op = "read" /\ result.ok) => WithinCap(result.val)

-----------------------------------------------------------------------------
(* Malformed buffers given to the Reader, under SpecDecode *)

DecodeElems == Leaves \cup Containers(Kids0)

\* what precedes the malformed element: nothing, or the opening of enclosing
\* Array and Fields nodes with their well-formed earlier children
ElementPrefixes(b) ==
    {<<>>,
     <<1, 2>> \o b,
     <<1, 1, 1, 1>>,
     <<2, 1>> \o DataValue_write(String(<<97>>)),
     <<2, 2>> \o DataValue_write(U8(5)) \o b \o DataValue_write(String(<<97>>))}

\* what precedes a malformed key of a Fields node
KeyPrefixes(b) ==
    {<<2, 1>>,
     <<2, 2>> \o DataValue_write(U8(5)) \o b,
     <<1, 1, 2, 1>>}

\* an element with a tag outside {0,1,2}, or a leaf whose value has a tag >= 8
BadElements == {<<3>>, <<U8_MAX>>, <<0, 1, 8>>, <<0, 1, U8_MAX>>}
BadValues == {<<8>>, <<9>>, <<U8_MAX>>}

\* what follows it: bytes a decoder that went on would accept
Tails == {<<>>, <<0, 0>>, <<0, 1, 2, 5, 0, 0>>}

Truncate ==
    /\ op = "write"
    /\ \E n \in 0..(Len(bytes) - 1) :
          /\ bytes' = SubSeq(bytes, 1, n)
          /\ input' = [how |-> "truncated", err |-> "InvalidSize", pos |-> n]
    /\ op' = "receive"
    /\ UNCHANGED <<elem, result, json, lookup>>
    /\ UNCHANGED builderVars

ReceiveBadElement ==
    /\ op = "write"
    /\ \E pre \in ElementPrefixes(bytes), bad \in BadElements, tail \in Tails :
          /\ bytes' = pre \o bad \o tail
          /\ input' = [how |-> "bad", err |-> "InvalidValue", pos |-> Len(pre) + Len(bad)]
    /\ op' = "receive"
    /\ UNCHANGED <<elem, result, json, lookup>>
    /\ UNCHANGED builderVars

ReceiveBadKey ==
    /\ op = "write"
    /\ \E pre \in KeyPrefixes(bytes), bad \in BadValues, tail \in Tails :
          /\ bytes' = pre \o bad \o tail
          /\ input' = [how |-> "bad", err |-> "InvalidValue", pos |-> Len(pre) + Len(bad)]
    /\ op' = "receive"
    /\ UNCHANGED <<elem, result, json, lookup>>
    /\ UNCHANGED builderVars

ReceiveBadValue ==
    /\ op = "new"
    /\ \E bad \in BadValues, tail \in Tails :
          /\ bytes' = bad \o tail
          /\ input' = [how |-> "bad", err |-> "InvalidValue", pos |-> Len(bad)]
    /\ op' = "receive_value"
    /\ UNCHANGED <<elem, result, json, lookup>>
    /\ UNCHANGED builderVars

InitDecode == InitCodec(DecodeElems)

NextDecode ==
    \/ Write
    \/ Truncate
    \/ ReceiveBadElement
    \/ ReceiveBadKey
    \/ ReceiveBadValue
    \/ Read
    \/ ValueRead

SpecDecode == InitDecode /\ [][NextDecode]_vars

\* C8: DataElement.read fails on a tag outside {0,1,2} and DataValue.read on a
\* tag of 8 or above; a failing read of a child, of a key or of a truncated
\* buffer inside an Array or Fields node makes the enclosing read return that
\* error, at the byte where it arose, and no value.
C8_DecodeErrors ==
    /\ (op \in {"read", "value_read"} /\ input.how = "bad") =>
            (~result.ok /\ result.err = input.err /\ result.pos = input.pos)
    /\ (op = "read" /\ input.how = "truncated") =>
            (~result.ok /\ result.err = "InvalidSize" /\ result.pos <= input.pos)

C8_Witness ==
    /\ op = "read"
    /\ input.how = "bad"
    /\ bytes[1] = 2
    /\ input.pos > 3
    /\ input.pos < Len(bytes)
    /\ ~result.ok

-----------------------------------------------------------------------------
(* Collaborators of the transaction builder *)

KEY_LENGTH == 32
SIGNATURE_LENGTH == 64
FEE_PER_BYTE == 3

\* Serializer for PublicKey: its bytes
PublicKey_write(key) == key

\* KeyPair::sign: the signature names the signer and the exact bytes signed
sign(kp, message) == [signer |-> kp.public, message |-> message]

\* globals::calculate_tx_fee
calculate_tx_fee(total_bytes) == total_bytes * FEE_PER_BYTE

\* a u64 known to be below 2^31, as limbs
U64FromNat(n) == <<0, 0, n \div LIMB, n % LIMB>>

\* TransactionType
Burn(asset, amount)   == [type |-> "Burn", asset |-> asset, amount |-> amount]
Transfer(txs)         == [type |-> "Transfer", txs |-> txs]
CallContract(call)    == [type |-> "CallContract", call |-> call]
DeployContract(code)  == [type |-> "DeployContract", code |-> code]

\* Serializer for TransactionType
Tx_write(t) == write_hash(t.asset) \o write_u64(t.amount) \o PublicKey_write(t.to)
Asset_write(a) == write_hash(a[1]) \o write_u64(a[2])

TransactionType_write(d) ==
    CASE d.type = "Burn" ->
            write_u8(0) \o write_hash(d.asset) \o write_u64(d.amount)
      [] d.type = "Transfer" ->
            write_u8(1) \o write_u8(AsU8(Len(d.txs)))
                \o Concat([i \in 1..Len(d.txs) |-> Tx_write(d.txs[i])])
      [] d.type = "CallContract" ->
            write_u8(2) \o write_string(d.call.contract)
                \o write_u8(AsU8(Len(d.call.assets)))
                \o Concat([i \in 1..Len(d.call.assets) |-> Asset_write(d.call.assets[i])])
      [] d.type = "DeployContract" ->
            write_u8(3) \o write_string(d.code)

\* Transaction::new
Transaction_new(o, d, fee, nonce, signature) ==
    [owner |-> o, data |-> d, fee |-> fee, nonce |-> nonce, signature |-> signature]

\* x + y on u64: the wrapped sum and whether it overflowed
RECURSIVE AddLimbs(_, _, _, _, _)
AddLimbs(x, y, i, carry, acc) ==
    IF i = 0 THEN [sum |-> acc, overflow |-> carry = 1]
    ELSE AddLimbs(x, y, i - 1, (x[i] + y[i] + carry) \div LIMB,
                  <<(x[i] + y[i] + carry) % LIMB>> \o acc)

AddU64(x, y) == AddLimbs(x, y, 4, 0, <<>>)

\* (x as f64 * m) as u64 for a multiplier m = num/den that f64 holds exactly:
\* the product is cut toward zero, and below zero the cast gives 0
MulAsU64(x, m) == IF x * m.num < 0 THEN 0 ELSE (x * m.num) \div m.den

-----------------------------------------------------------------------------
(* impl TransactionBuilder, self = [owner, data, fee_multiplier] *)

TransactionBuilder_new(o, d, m) == [owner |-> o, data |-> d, fee_multiplier |-> m]

serialize(self) == PublicKey_write(self.owner) \o TransactionType_write(self.data)

\* estimate_fees_internal rounding the product to the nearest integer
estimate_fees_internal_rounding(self, writer) ==
    LET total_bytes == SIGNATURE_LENGTH + 8 + Len(writer) IN
    MulAsU64(2 * calculate_tx_fee(total_bytes) * self.fee_multiplier.num
                + self.fee_multiplier.den,
             [num |-> 1, den |-> 2 * self.fee_multiplier.den])

estimate_fees_internal(self, writer) ==
    LET total_bytes == SIGNATURE_LENGTH + 8 + Len(writer) IN
    MulAsU64(calculate_tx_fee(total_bytes), self.fee_multiplier)

Panic == [ok |-> FALSE, map |-> <<>>, panic |-> TRUE]
Returned(map) == [ok |-> TRUE, map |-> map, panic |-> FALSE]

\* for (asset, amount) in &call.assets { total_spent.insert(asset, *amount) }
RECURSIVE InsertAssets(_, _, _)
InsertAssets(assets, i, total) ==
    IF i > Len(assets) THEN Returned(total)
    ELSE InsertAssets(assets, i + 1, Insert(total, assets[i][1], assets[i][2]))

\* for tx in txs { *total_spent.entry(&tx.asset).or_insert(0) += tx.amount }
\* An overflowing += panics when overflow checks are compiled in and wraps
\* when they are not.
RECURSIVE SumTransfers(_, _, _, _)
SumTransfers(txs, i, total, overflow_checks) ==
    IF i > Len(txs) THEN Returned(total)
    ELSE LET current == IF txs[i].asset \in DOMAIN total THEN total[txs[i].asset]
                        ELSE U64FromNat(0)
             added   == AddU64(current, txs[i].amount) IN
         IF added.overflow /\ overflow_checks THEN Panic
         ELSE SumTransfers(txs, i + 1, Insert(total, txs[i].asset, added.sum),
                           overflow_checks)

total_spent(self, overflow_checks) ==
    CASE self.data.type = "Burn" ->
            Returned(Insert(<<>>, self.data.asset, self.data.amount))
      [] self.data.type = "CallContract" ->
            InsertAssets(self.data.call.assets, 1, <<>>)
      [] self.data.type = "Transfer" ->
            SumTransfers(self.data.txs, 1, <<>>, overflow_checks)
      [] self.data.type = "DeployContract" ->
            Returned(<<>>)

estimate_fees(self) == estimate_fees_internal(self, serialize(self))

\* build_validate looking at the transfers before the key-pair
build_validate_transfers_first(self, kp) ==
    IF self.data.type = "Transfer" /\ Len(self.data.txs) = 0 THEN "ExpectedOneTx"
    ELSE IF self.data.type = "Transfer"
            /\ \E i \in 1..Len(self.data.txs) : self.data.txs[i].to = self.owner
         THEN "TxOwnerIsReceiver"
    ELSE IF kp.public # self.owner THEN "InvalidKeyPair"
    ELSE "ok"

\* the checks build makes before it serializes: the error, or "ok"
build_validate(self, kp) ==
    IF kp.public # self.owner THEN "InvalidKeyPair"
    ELSE IF self.data.type = "Transfer" /\ Len(self.data.txs) = 0 THEN "ExpectedOneTx"
    ELSE IF self.data.type = "Transfer"
            /\ \E i \in 1..Len(self.data.txs) : self.data.txs[i].to = self.owner
         THEN "TxOwnerIsReceiver"
    ELSE "ok"

\* build_fee computed once the fee field is in the writer
build_fee_after_write(self) ==
    estimate_fees_internal(self, serialize(self) \o write_u64(U64FromNat(0)))

\* let fee = self.estimate_fees_internal(&writer), writer = self.serialize()
build_fee(self) == estimate_fees_internal(self, serialize(self))

build_nonce == 0

\* build_bytes with the nonce written after the fee
build_bytes_with_nonce(self) ==
    serialize(self) \o write_u64(U64FromNat(build_fee(self)))
        \o write_u64(U64FromNat(build_nonce))

\* writer.bytes() once the fee is written
build_bytes(self) == serialize(self) \o write_u64(U64FromNat(build_fee(self)))

\* the result, and in signs the byte strings the call handed to keypair.sign
build(self, kp) ==
    IF build_validate(self, kp) # "ok"
    THEN [ok |-> FALSE, err |-> build_validate(self, kp), signs |-> <<>>]
    ELSE [ok |-> TRUE,
          tx |-> Transaction_new(self.owner, self.data, build_fee(self), build_nonce,
                                 sign(kp, build_bytes(self))),
          signs |-> <<build_bytes(self)>>]

-----------------------------------------------------------------------------
(* Inputs of the builder *)

MaxTransfers == 3
MaxCalls == 2

K1 == Rep(1, KEY_LENGTH)
K2 == Rep(2, KEY_LENGTH)
K3 == Rep(3, KEY_LENGTH)
KeyPairs == {[public |-> K1, secret |-> 1], [public |-> K2, secret |-> 2]}
NoKeyPair == [public |-> <<>>, secret |-> 0]

AssetA == [i \in 1..HASH_SIZE |-> i]
AssetB == [i \in 1..HASH_SIZE |-> 2 * i]

U64_MAX == Rep(LIMB - 1, 4)

TransferChoices ==
    {[asset |-> AssetA, amount |-> U64FromNat(5), to |-> K3],
     [asset |-> AssetA, amount |-> U64FromNat(7), to |-> K3],
     [asset |-> AssetB, amount |-> U64FromNat(3), to |-> K1],
     [asset |-> AssetA, amount |-> U64_MAX, to |-> K3]}

AssetChoices ==
    {<<AssetA, U64FromNat(5)>>, <<AssetA, U64FromNat(7)>>, <<AssetB, U64FromNat(3)>>}

ListsOf(S) == UNION {[1..n -> S] : n \in 0..MaxTransfers}

Payloads ==
    {Burn(AssetA, U64FromNat(10)), Burn(AssetB, U64_MAX)}
    \cup {Transfer(txs) : txs \in ListsOf(TransferChoices)}
    \cup {CallContract([contract |-> <<97>>, assets |-> assets]) :
                assets \in ListsOf(AssetChoices)}
    \cup {DeployContract(<<97, 53>>)}

\* fee multipliers, each exact in f64
Multipliers ==
    {[num |-> 1, den |-> 1], [num |-> 5, den |-> 4],
     [num |-> 3, den |-> 2], [num |-> -5, den |-> 4]}

Self == TransactionBuilder_new(owner, data, fee_multiplier)

NoSpent == [ok |-> FALSE, map |-> <<>>, panic |-> FALSE]
NoTx == [ok |-> FALSE, err |-> "none", signs |-> <<>>]

-----------------------------------------------------------------------------
(* Builder operations *)

\* TransactionBuilder::new(owner, data, fee_multiplier)
InitBuilder ==
    /\ owner \in {K1, K2}
    /\ data \in Payloads
    /\ fee_multiplier \in Multipliers
    /\ phase = "Created"
    /\ estimates = {}
    /\ spent = NoSpent
    /\ keypair = NoKeyPair
    /\ tx = NoTx
    /\ signed = <<>>
    /\ calls = 0
    /\ IdleCodec

\* builder.estimate_fees()
EstimateFees ==
    /\ phase = "Created"
    /\ calls < MaxCalls
    /\ estimates' = estimates \cup {estimate_fees(Self)}
    /\ calls' = calls + 1
    /\ UNCHANGED <<owner, data, fee_multiplier, phase, spent, keypair, tx, signed>>
    /\ UNCHANGED codecVars

\* builder.total_spent()
TotalSpent ==
    /\ phase = "Created"
    /\ calls < MaxCalls
    /\ \E overflow_checks \in BOOLEAN :
          /\ spent' = total_spent(Self, overflow_checks)
          /\ phase' = IF total_spent(Self, overflow_checks).panic THEN "Panicked" ELSE phase
    /\ calls' = calls + 1
    /\ UNCHANGED <<owner, data, fee_multiplier, estimates, keypair, tx, signed>>
    /\ UNCHANGED codecVars

\* builder.build(&keypair): consumes the builder
Build ==
    /\ phase = "Created"
    /\ \E kp \in KeyPairs :
          /\ keypair' = kp
          /\ tx' = build(Self, kp)
          /\ signed' = signed \o build(Self, kp).signs
          /\ phase' = IF build(Self, kp).ok THEN "Built" ELSE "Rejected"
    /\ UNCHANGED <<owner, data, fee_multiplier, estimates, spent, calls>>
    /\ UNCHANGED codecVars

NextBuilder ==
    \/ EstimateFees
    \/ TotalSpent
    \/ Build

SpecBuilder == InitBuilder /\ [][NextBuilder]_vars

-----------------------------------------------------------------------------
(* Claims about the builder, under SpecBuilder *)

\* C3: estimate_fees and total_spent leave owner, payload and fee multiplier
\* as they were, every estimate_fees on one builder returns the same value,
\* and the fee in the Transaction a successful build returns is the value
\* estimate_fees returned before.
C3_FeeConsistency ==
    [][/\ calls' # calls =>
            (owner' = owner /\ data' = data /\ fee_multiplier' = fee_multiplier)
       /\ Cardinality(estimates') <= 1
       /\ (phase' = "Built" /\ estimates # {}) => tx'.tx.fee \in estimates]_vars

C3_Witness ==
    /\ phase = "Built"
    /\ calls = 2
    /\ spent = NoSpent
    /\ estimates = {tx.tx.fee}
    /\ tx.tx.fee > 0

\* C4: build fails with InvalidKeyPair when the key-pair's public key is not
\* the owner; otherwise, on a Transfer payload, with ExpectedOneTx when the
\* list is empty and otherwise with TxOwnerIsReceiver when a recipient is the
\* owner; a failing build returns no Transaction and signs nothing, and every
\* other build returns a Transaction.
C4_BuildValidation ==
    phase \in {"Built", "Rejected"} =>
        /\ IF keypair.public # owner
             THEN ~tx.ok /\ tx.err = "InvalidKeyPair"
           ELSE IF data.type = "Transfer" /\ data.txs = <<>>
             THEN ~tx.ok /\ tx.err = "ExpectedOneTx"
           ELSE IF data.type = "Transfer" /\ \E i \in DOMAIN data.txs : data.txs[i].to = owner
             THEN ~tx.ok /\ tx.err = "TxOwnerIsReceiver"
           ELSE tx.ok
        /\ ~tx.ok => (signed = <<>> /\ phase = "Rejected" /\ "tx" \notin DOMAIN tx)

C4_Witness ==
    /\ phase = "Rejected"
    /\ keypair.public = owner
    /\ data.type = "Transfer"
    /\ Len(data.txs) = 2
    /\ tx.err = "TxOwnerIsReceiver"

\* C5: a successful build signs exactly the encoding of the owner key, then of
\* the payload, then the 8 bytes of the fee, and nothing else; the owner,
\* payload and fee of the Transaction are the ones signed, and its nonce is 0.
C5_SignedBytes ==
    phase = "Built" =>
        /\ signed = <<PublicKey_write(tx.tx.owner) \o TransactionType_write(tx.tx.data)
                        \o write_u64(U64FromNat(tx.tx.fee))>>
        /\ Len(signed[1]) = KEY_LENGTH + Len(TransactionType_write(data)) + 8
        /\ tx.tx.signature = sign(keypair, signed[1])
        /\ tx.tx.owner = owner
        /\ tx.tx.data = data
        /\ tx.tx.nonce = 0

C5_Witness ==
    /\ phase = "Built"
    /\ data.type = "Transfer"
    /\ Len(data.txs) = 3
    /\ tx.tx.fee > 0
    /\ Len(signed) = 1

\* the exact sum, five limbs wide, of the amounts of the transfers of asset a
RECURSIVE ColumnSum(_, _, _, _)
ColumnSum(txs, a, j, i) ==
    IF i > Len(txs) THEN 0
    ELSE (IF txs[i].asset = a THEN txs[i].amount[j] ELSE 0) + ColumnSum(txs, a, j, i + 1)

RECURSIVE CarryInto(_, _, _)
CarryInto(txs, a, j) ==
    IF j = 4 THEN 0
    ELSE (ColumnSum(txs, a, j + 1, 1) + CarryInto(txs, a, j + 1)) \div LIMB

ExactSum(txs, a) ==
    [j \in 1..5 |->
        IF j = 1 THEN CarryInto(txs, a, 0)
        ELSE (ColumnSum(txs, a, j - 1, 1) + CarryInto(txs, a, j - 1)) % LIMB]

\* the amount of the last pair of assets that names asset a
LastAmount(assets, a) ==
    LET last == CHOOSE i \in DOMAIN assets :
                    /\ assets[i][1] = a
                    /\ \A k \in DOMAIN assets : assets[k][1] = a => k <= i
    IN assets[last][2]

\* C6: total_spent returns, for Transfer, one entry per asset of the list
\* holding the arithmetic sum of that asset's amounts, whatever the u64
\* amounts; for Burn the one entry; for CallContract one entry per asset
\* holding the last amount listed for it; for DeployContract nothing.
C6_TotalSpent ==
    spent # NoSpent =>
        /\ spent.ok
        /\ CASE data.type = "Transfer" ->
                  /\ DOMAIN spent.map = {data.txs[i].asset : i \in DOMAIN data.txs}
                  /\ \A a \in DOMAIN spent.map :
                        <<0>> \o spent.map[a] = ExactSum(data.txs, a)
             [] data.type = "Burn" ->
                  /\ DOMAIN spent.map = {data.asset}
                  /\ spent.map[data.asset] = data.amount
             [] data.type = "CallContract" ->
                  /\ DOMAIN spent.map = {data.call.assets[i][1] : i \in DOMAIN data.call.assets}
                  /\ \A a \in DOMAIN spent.map :
                        spent.map[a] = LastAmount(data.call.assets, a)
             [] data.type = "DeployContract" ->
                  spent.map = <<>>

\* calculate_tx_fee of the signature, the fee field and the base encoding
BaseFee ==
    calculate_tx_fee(SIGNATURE_LENGTH + 8
                     + Len(PublicKey_write(owner)) + Len(TransactionType_write(data)))

\* f is BaseFee times the multiplier, cut toward zero into a u64
IsTruncated(f) ==
    IF fee_multiplier.num >= 0
    THEN /\ f * fee_multiplier.den <= BaseFee * fee_multiplier.num
         /\ BaseFee * fee_multiplier.num < (f + 1) * fee_multiplier.den
    ELSE f = 0

\* C9: the fee estimate_fees returns and build stores is
\* calculate_tx_fee(SIGNATURE_LENGTH + 8 + len(owner key, payload)) times the
\* fee multiplier, cut toward zero to a u64, never rounded up.
C9_FeeTruncates ==
    /\ \A f \in estimates : IsTruncated(f)
    /\ phase = "Built" => IsTruncated(tx.tx.fee)

C9_Witness ==
    /\ phase = "Built"
    /\ estimates # {}
    /\ fee_multiplier.num > 0
    /\ (BaseFee * fee_multiplier.num) % fee_multiplier.den # 0
    /\ 2 * ((BaseFee * fee_multiplier.num) % fee_multiplier.den) >= fee_multiplier.den
    /\ tx.tx.fee = (BaseFee * fee_multiplier.num) \div fee_multiplier.den

====
